---- MODULE Spec2Model ----
(***************************************************************************)
(* A model of api-crawler/crawler.py: the text cleanup (clean_text), the   *)
(* page extractor (get_page_content) and the crawl loop (crawl_docs).      *)
(*                                                                         *)
(* A Python str is a sequence of one-character strings; a character that   *)
(* is not ASCII is written by its code point ("U+00FB"), and so is the     *)
(* backquote ("U+0060").                                                   *)
(***************************************************************************)
EXTENDS Integers, Sequences, FiniteSets, TLC

VARIABLES
    \* clean_text, run twice over one input
    text, pass1, pass2, cpc,
    \* get_page_content on one parsed page
    dom, repl, title_text, code_blocks, tables, content, xpc,
    \* crawl_docs: the configuration, the site, the locals and the output file
    LINKS_LIST, MAX_PAGES, kind, visited, to_visit, pages_processed, out,
    url, result, pc,
    \* crawl_docs: what has happened so far (history, read by no action)
    started, discover_failed, requests_made, unslept

cleanVars == <<text, pass1, pass2, cpc>>

extractVars == <<dom, repl, title_text, code_blocks, tables, content, xpc>>

crawlVars == <<LINKS_LIST, MAX_PAGES, kind, visited, to_visit,
               pages_processed, out, url, result, pc,
               started, discover_failed, requests_made, unslept>>

vars == <<text, pass1, pass2, cpc,
          dom, repl, title_text, code_blocks, tables, content, xpc,
          LINKS_LIST, MAX_PAGES, kind, visited, to_visit, pages_processed, out,
          url, result, pc, started, discover_failed, requests_made, unslept>>

(***************************************************************************)
(* Characters: str.isupper, str.islower and the whitespace of str.strip,   *)
(* over the characters the model's inputs and the program's literals use.  *)
(***************************************************************************)
UpperChars ==
    {"A", "B", "C", "D", "E", "F", "G", "H", "I", "J", "K", "L", "M", "N",
     "O", "P", "Q", "R", "S", "T", "U", "V", "W", "X", "Y", "Z", "U+00D4"}

LowerChars ==
    {"a", "b", "c", "d", "e", "f", "g", "h", "i", "j", "k", "l", "m", "n",
     "o", "p", "q", "r", "s", "t", "u", "v", "w", "x", "y", "z",
     "U+00FC", "U+00F6", "U+00DF", "U+00FB", "U+00EE", "U+00F9", "U+00E8"}

Whitespace == {" ", "\t", "\n"}

IsUpper(c) == c \in UpperChars

IsLower(c) == c \in LowerChars

\* str.upper on one character (ASCII letters)
ToUpper(c) ==
    CASE c = "a" -> "A" [] c = "e" -> "E" [] c = "i" -> "I" [] c = "o" -> "O"
      [] c = "u" -> "U" [] c = "p" -> "P" [] c = "s" -> "S" [] c = "t" -> "T"
      [] OTHER -> c

(***************************************************************************)
(* str operations                                                          *)
(***************************************************************************)
StartsWith(s, prefix) ==
    Len(prefix) <= Len(s) /\ SubSeq(s, 1, Len(prefix)) = prefix

EndsWithIgnoreCase(s, suffix) ==
    /\ Len(suffix) <= Len(s)
    /\ [i \in 1..Len(suffix) |-> ToUpper(s[Len(s) - Len(suffix) + i])] = suffix

EndsWith(s, suffix) ==
    Len(suffix) <= Len(s) /\ SubSeq(s, Len(s) - Len(suffix) + 1, Len(s)) = suffix

\* sub in s
Contains(s, sub) ==
    \E i \in 1..(Len(s) - Len(sub) + 1) : SubSeq(s, i, i + Len(sub) - 1) = sub

\* s.count(sub) for a sub that cannot overlap itself
Count(s, sub) ==
    Cardinality({i \in 1..(Len(s) - Len(sub) + 1) :
                    SubSeq(s, i, i + Len(sub) - 1) = sub})

\* s.replace(old, new): every non-overlapping occurrence, left to right
RECURSIVE Replace(_, _, _)
Replace(s, old, new) ==
    IF Len(s) < Len(old) \/ Len(old) = 0 THEN s
    ELSE IF StartsWith(s, old)
         THEN new \o Replace(SubSeq(s, Len(old) + 1, Len(s)), old, new)
         ELSE <<Head(s)>> \o Replace(Tail(s), old, new)

RECURSIVE LStrip(_)
LStrip(s) ==
    IF s # <<>> /\ Head(s) \in Whitespace THEN LStrip(Tail(s)) ELSE s

RECURSIVE RStrip(_)
RStrip(s) ==
    IF s # <<>> /\ s[Len(s)] \in Whitespace
    THEN RStrip(SubSeq(s, 1, Len(s) - 1)) ELSE s

\* s.strip()
Strip(s) == LStrip(RStrip(s))

\* the index of the first "\n" of s, or 0
FirstNewline(s) ==
    IF \E i \in 1..Len(s) : s[i] = "\n"
    THEN CHOOSE i \in 1..Len(s) : s[i] = "\n" /\ \A j \in 1..(i - 1) : s[j] # "\n"
    ELSE 0

\* s.splitlines(): no line for the empty rest after a final line break
RECURSIVE SplitLines(_)
SplitLines(s) ==
    IF s = <<>> THEN <<>>
    ELSE LET i == FirstNewline(s) IN
         IF i = 0 THEN <<s>>
         ELSE <<SubSeq(s, 1, i - 1)>> \o SplitLines(SubSeq(s, i + 1, Len(s)))

\* sep.join(parts)
RECURSIVE Join(_, _)
Join(sep, parts) ==
    IF parts = <<>> THEN <<>>
    ELSE IF Len(parts) = 1 THEN parts[1]
    ELSE parts[1] \o sep \o Join(sep, Tail(parts))

(***************************************************************************)
(* clean_text                                                              *)
(***************************************************************************)
\* the literals replaced on every line, in the order of the chained replace
ARTIFACTS ==
    << <<(<<"[", "e", "m", "a", "i", "l", " ", "p", "r", "o", "t", "e", "c",
            "t", "e", "d", "]">>),
         (<<"e", "m", "a", "i", "l", "@", "e", "x", "a", "m", "p", "l", "e",
            ".", "c", "o", "m">>)>>,
       <<(<<"U+F8FF", "U+00FC", "U+00F6", "U+00DF">>),
         (<<"[", "N", "O", "T", "E", "]">>)>>,
       <<(<<"U+201A", "U+00FB", "U+00EE">>), (<<"-", ">">>)>>,
       <<(<<"U+201A", "U+00F9", "U+00A7", "U+00D4", "U+220F", "U+00E8">>),
         (<<"<", "3">>)>> >>

\* the tuple given to current_word.endswith
ACRONYMS ==
    {<<"R", "E", "S", "T">>, <<"A", "P", "I">>, <<"U", "I">>,
     <<"J", "S", "O", "N">>, <<"S", "D", "K">>}

RECURSIVE ReplaceArtifacts(_, _)
ReplaceArtifacts(line, k) ==
    IF k > Len(ARTIFACTS) THEN line
    ELSE ReplaceArtifacts(Replace(line, ARTIFACTS[k][1], ARTIFACTS[k][2]), k + 1)

\* the condition under which a word ends before char
SplitHere(current_word, char, acronyms) ==
    /\ IsUpper(char)
    /\ IsLower(current_word[Len(current_word)])
    /\ ~ \E a \in acronyms : EndsWith(current_word, a)

\* the loop over line[1:], from position i with the words and the word so far
RECURSIVE SplitWords(_, _, _, _, _)
SplitWords(line, i, words, current_word, acronyms) ==
    IF i > Len(line) THEN Append(words, current_word)
    ELSE IF SplitHere(current_word, line[i], acronyms)
         THEN SplitWords(line, i + 1, Append(words, current_word),
                         <<line[i]>>, acronyms)
         ELSE SplitWords(line, i + 1, words,
                         Append(current_word, line[i]), acronyms)

\* one line of the loop: the replacements, then the word-boundary repair
FixLine(line, acronyms) ==
    LET l == ReplaceArtifacts(line, 1) IN
    IF Len(l) > 1
    THEN Join(<<" ">>, SplitWords(l, 2, <<>>, <<l[1]>>, acronyms))
    ELSE l

\* the loop over lines, from line k with cleaned and prev_empty
RECURSIVE CleanLines(_, _, _, _, _)
CleanLines(lines, k, cleaned, prev_empty, acronyms) ==
    IF k > Len(lines) THEN cleaned
    ELSE LET line == FixLine(lines[k], acronyms) IN
         IF line # <<>>
         THEN CleanLines(lines, k + 1, Append(cleaned, line), FALSE, acronyms)
         ELSE IF ~prev_empty
              THEN CleanLines(lines, k + 1, Append(cleaned, <<>>), TRUE, acronyms)
              ELSE CleanLines(lines, k + 1, cleaned, prev_empty, acronyms)

\* clean_text with the acronym tuple as a parameter
CleanWith(t, acronyms) ==
    LET raw == SplitLines(t)
        lines == [k \in 1..Len(raw) |-> Strip(raw[k])]
    IN  Join(<<"\n">>, CleanLines(lines, 1, <<>>, FALSE, acronyms))

clean_text(t) == CleanWith(t, ACRONYMS)

(***************************************************************************)
(* The parsed page.  The focus element (article) is node 0; its            *)
(* descendants are the nodes 1..n in document order, each with its tag and *)
(* its parent.  replace_with leaves a string where the element was: repl   *)
(* holds that string for a replaced element, whose own subtree stays as it *)
(* was, detached from the page.                                            *)
(***************************************************************************)
\* the string of every text node of the model's pages
NODE_TEXT == <<"x">>

\* the page's own URL, the title of a page without an h1
PAGE_URL == <<"h", "/", "p">>

NodeIds(d) == [k \in 1..d.n |-> k]

\* the children of node i, in document order
Children(d, i) == SelectSeq(NodeIds(d), LAMBDA k : d.parent[k] = i)

\* element.get_text() (the string of a text node), with the tree as it is now
RECURSIVE GetText(_, _, _), StringsOf(_, _, _)
StringsOf(d, r, kids) ==
    IF kids = <<>> THEN <<>>
    ELSE (IF r[Head(kids)] # <<>> THEN r[Head(kids)]
          ELSE GetText(d, r, Head(kids)))
         \o StringsOf(d, r, Tail(kids))

GetText(d, r, i) ==
    IF i # 0 /\ d.tag[i] = "#text" THEN NODE_TEXT
    ELSE StringsOf(d, r, Children(d, i))

\* node j is, now, a descendant of root
RECURSIVE Under(_, _, _, _)
Under(d, r, j, root) ==
    /\ j # 0
    /\ j # root
    /\ r[j] = <<>>
    /\ (d.parent[j] = root \/ Under(d, r, d.parent[j], root))

\* root.find_all(tags): the matching descendants, in document order
FindAll(d, r, root, tags) ==
    SelectSeq(NodeIds(d), LAMBDA k : d.tag[k] \in tags /\ Under(d, r, k, root))

Digit(k) == <<"0", "1", "2", "3", "4", "5", "6", "7", "8", "9">>[k + 1]

\* str(n)
RECURSIVE Str(_)
Str(n) == IF n < 10 THEN <<Digit(n)>> ELSE Str(n \div 10) \o <<Digit(n % 10)>>

CodePlaceholder(n) ==
    <<"[", "C", "O", "D", "E", "_", "B", "L", "O", "C", "K", "_">>
        \o Str(n) \o <<"]">>

TablePlaceholder(n) ==
    <<"[", "T", "A", "B", "L", "E", "_">> \o Str(n) \o <<"]">>

FENCE == <<"U+0060", "U+0060", "U+0060">>

\* the title: the first h1 of the article, or the page's URL
TitleOf(d, r, page_url) ==
    LET h == FindAll(d, r, 0, {"h1"}) IN
    IF h # <<>> THEN Strip(GetText(d, r, h[1])) ELSE page_url

\* the text kept for one pre or code element
CodeText(d, r, e) ==
    LET raw == SplitLines(GetText(d, r, e)) IN
    Strip(Join(<<"\n">>, [k \in 1..Len(raw) |-> RStrip(raw[k])]))

\* the loop over the pre and code elements found before the loop began
RECURSIVE PreserveCode(_, _, _, _)
PreserveCode(d, elems, r, blocks) ==
    IF elems = <<>> THEN [repl |-> r, code_blocks |-> blocks]
    ELSE LET e == Head(elems)
             nb == Append(blocks, CodeText(d, r, e))
         IN  PreserveCode(d, Tail(elems),
                          [r EXCEPT ![e] = CodePlaceholder(Len(nb))], nb)

\* a header or a cell: its code in backquotes if it holds a code element
CellText(d, r, cell) ==
    LET code == FindAll(d, r, cell, {"code"}) IN
    IF code # <<>>
    THEN <<"U+0060">> \o Strip(GetText(d, r, code[1])) \o <<"U+0060">>
    ELSE Strip(GetText(d, r, cell))

HEADER_RULE_WIDTH == 20

\* the header line and the rule under it
HeaderText(d, r, headers) ==
    IF headers # <<>>
    THEN Join(<<" ", "|", " ">>,
              [k \in 1..Len(headers) |-> CellText(d, r, headers[k])])
         \o <<"\n">>
         \o [k \in 1..(Len(headers) * HEADER_RULE_WIDTH) |-> "-"]
         \o <<"\n">>
    ELSE <<>>

\* the loop over the rows of one table
RECURSIVE RowsText(_, _, _, _, _)
RowsText(d, r, rows, headers, table_text) ==
    IF rows = <<>> THEN table_text
    ELSE LET cells == FindAll(d, r, Head(rows), {"td", "th"})
             row_text == Join(<<" ", "|", " ">>,
                              [k \in 1..Len(cells) |-> CellText(d, r, cells[k])])
         IN  IF cells # <<>>
                /\ (headers = <<>> \/ row_text # SplitLines(table_text)[1])
             THEN RowsText(d, r, Tail(rows), headers,
                           table_text \o row_text \o <<"\n">>)
             ELSE RowsText(d, r, Tail(rows), headers, table_text)

TableText(d, r, t) ==
    LET headers == FindAll(d, r, t, {"th"}) IN
    RowsText(d, r, FindAll(d, r, t, {"tr"}), headers, HeaderText(d, r, headers))

\* the loop over the table elements found before the loop began
RECURSIVE PreserveTables(_, _, _, _)
PreserveTables(d, elems, r, tbls) ==
    IF elems = <<>> THEN [repl |-> r, tables |-> tbls]
    ELSE LET t == Head(elems)
             nt == Append(tbls, TableText(d, r, t))
         IN  PreserveTables(d, Tail(elems),
                            [r EXCEPT ![t] = TablePlaceholder(Len(nt))], nt)

\* for i, code in enumerate(code_blocks, 1): content.replace(...)
RECURSIVE RestoreCode(_, _, _)
RestoreCode(c, blocks, i) ==
    IF i > Len(blocks) THEN c
    ELSE RestoreCode(Replace(c, CodePlaceholder(i),
                             <<"\n">> \o FENCE \o <<"\n">> \o blocks[i]
                                 \o <<"\n">> \o FENCE \o <<"\n">>),
                     blocks, i + 1)

\* for i, table in enumerate(tables, 1): content.replace(...)
RECURSIVE RestoreTables(_, _, _)
RestoreTables(c, tbls, i) ==
    IF i > Len(tbls) THEN c
    ELSE RestoreTables(Replace(c, TablePlaceholder(i),
                               <<"\n">> \o tbls[i] \o <<"\n">>),
                       tbls, i + 1)

(***************************************************************************)
(* Inputs of get_page_content: pages whose focus element has at most       *)
(* MaxNodes descendants, and pages without a focus element                 *)
(***************************************************************************)
MaxNodes == 4

Tags == {"#text", "pre", "code", "table", "tr", "td", "th", "h1"}

\* node i and its ancestors, the article included
RECURSIVE Chain(_, _)
Chain(parent, i) == IF i = 0 THEN {0} ELSE {i} \cup Chain(parent, parent[i])

\* parents that number the nodes in document order
Parents(n) ==
    {p \in [1..n -> 0..(n - 1)] :
        \A i \in 1..n : IF i = 1 THEN p[i] = 0 ELSE p[i] \in Chain(p, i - 1)}

\* a text node is a leaf
LeafText(p, t) == \A i \in DOMAIN p : p[i] # 0 => t[p[i]] # "#text"

NoFocus == [n |-> 0, tag |-> <<>>, parent |-> <<>>, focus |-> FALSE]

(***************************************************************************)
(* Inputs of clean_text: texts of at most MaxPieces pieces                 *)
(***************************************************************************)
MaxPieces == 4

Pieces ==
    {<<"u">>, <<"i">>, <<"U">>, <<" ">>, <<"\n">>,
     <<"U+201A", "U+00FB", "U+00EE">>}

RECURSIVE Flatten(_)
Flatten(ps) == IF ps = <<>> THEN <<>> ELSE Head(ps) \o Flatten(Tail(ps))

Texts ==
    {Flatten(ps) : ps \in UNION {[1..n -> Pieces] : n \in 0..MaxPieces}}

\* the variables of crawl_docs, at rest
CrawlIdle ==
    /\ LINKS_LIST = <<>>
    /\ MAX_PAGES = [none |-> TRUE, n |-> 0]
    /\ kind = <<>>
    /\ visited = {}
    /\ to_visit = {}
    /\ pages_processed = 0
    /\ out = <<>>
    /\ url = <<>>
    /\ result = [found |-> FALSE, title |-> <<>>, content |-> <<>>]
    /\ pc = "idle"
    /\ started = <<>>
    /\ discover_failed = {}
    /\ requests_made = 0
    /\ unslept = 0

\* the variables of get_page_content, at rest
ExtractIdle ==
    /\ dom = NoFocus
    /\ repl = <<>>
    /\ title_text = <<>>
    /\ code_blocks = <<>>
    /\ tables = <<>>
    /\ content = <<>>
    /\ xpc = "idle"

CleanInit ==
    /\ text \in Texts
    /\ pass1 = <<>>
    /\ pass2 = <<>>
    /\ cpc = "in"
    /\ ExtractIdle
    /\ CrawlIdle

\* content = clean_text(text)
CleanOnce ==
    /\ cpc = "in"
    /\ pass1' = clean_text(text)
    /\ cpc' = "once"
    /\ UNCHANGED <<text, pass2>>
    /\ UNCHANGED extractVars
    /\ UNCHANGED crawlVars

\* clean_text applied to its own result
CleanTwice ==
    /\ cpc = "once"
    /\ pass2' = clean_text(pass1)
    /\ cpc' = "twice"
    /\ UNCHANGED <<text, pass1>>
    /\ UNCHANGED extractVars
    /\ UNCHANGED crawlVars

CleanNext == CleanOnce \/ CleanTwice

CleanSpec == CleanInit /\ [][CleanNext]_vars

\* C9: clean_text is idempotent: a second pass changes nothing
C9_Idempotent == cpc = "twice" => pass2 = pass1

CleanIdle ==
    /\ text = <<>>
    /\ pass1 = <<>>
    /\ pass2 = <<>>
    /\ cpc = "idle"

ExtractInit ==
    /\ \/ dom = NoFocus
       \/ \E n \in 0..MaxNodes : \E p \in Parents(n) : \E t \in [1..n -> Tags] :
             /\ LeafText(p, t)
             /\ dom = [n |-> n, tag |-> t, parent |-> p, focus |-> TRUE]
    /\ repl = [k \in 1..dom.n |-> <<>>]
    /\ title_text = <<>>
    /\ code_blocks = <<>>
    /\ tables = <<>>
    /\ content = <<>>
    /\ xpc = "parsed"
    /\ CleanIdle
    /\ CrawlIdle

\* if not article: return None, None
ReturnNone ==
    /\ xpc = "parsed"
    /\ ~dom.focus
    /\ xpc' = "none"
    /\ UNCHANGED <<dom, repl, title_text, code_blocks, tables, content>>
    /\ UNCHANGED cleanVars
    /\ UNCHANGED crawlVars

\* the title, the code blocks and the tables put aside, the text cleaned.
\* The model's pages hold no a, script or style element: the loop that inlines
\* the links and the one that drops scripts and styles find nothing to do.
Preserve ==
    /\ xpc = "parsed"
    /\ dom.focus
    /\ LET code == PreserveCode(dom, FindAll(dom, repl, 0, {"pre", "code"}),
                                repl, <<>>)
           tbl == PreserveTables(dom, FindAll(dom, code.repl, 0, {"table"}),
                                 code.repl, <<>>)
       IN  /\ title_text' = TitleOf(dom, repl, PAGE_URL)
           /\ code_blocks' = code.code_blocks
           /\ tables' = tbl.tables
           /\ repl' = tbl.repl
           /\ content' = clean_text(GetText(dom, tbl.repl, 0))
    /\ xpc' = "cleaned"
    /\ UNCHANGED dom
    /\ UNCHANGED cleanVars
    /\ UNCHANGED crawlVars

\* the code blocks, then the tables, put back; return title_text, content
Restore ==
    /\ xpc = "cleaned"
    /\ content' = RestoreTables(RestoreCode(content, code_blocks, 1), tables, 1)
    /\ xpc' = "returned"
    /\ UNCHANGED <<dom, repl, title_text, code_blocks, tables>>
    /\ UNCHANGED cleanVars
    /\ UNCHANGED crawlVars

ExtractNext == ReturnNone \/ Preserve \/ Restore

ExtractSpec == ExtractInit /\ [][ExtractNext]_vars

\* the pre and code elements, and the table elements, of the focus element
NumCode == Cardinality({i \in 1..dom.n : dom.tag[i] \in {"pre", "code"}})

NumTables == Cardinality({i \in 1..dom.n : dom.tag[i] = "table"})

\* C8: the body holds one fenced block for each pre or code element and one
\* rendering for each table of the focus element, whatever their nesting,
\* each the content kept under its index, and no placeholder is left in it
C8_PlaceholdersRestored ==
    xpc = "returned" =>
        /\ Len(code_blocks) = NumCode
        /\ Len(tables) = NumTables
        /\ Count(content, FENCE) = 2 * NumCode
        /\ \A k \in 1..Len(code_blocks) :
              Contains(content, FENCE \o <<"\n">> \o code_blocks[k]
                                    \o <<"\n">> \o FENCE)
        /\ \A k \in 1..Len(tables) :
              Contains(content, <<"\n">> \o tables[k] \o <<"\n">>)
        /\ ~Contains(content, <<"[", "C", "O", "D", "E", "_", "B", "L", "O", "C", "K", "_">>)
        /\ ~Contains(content, <<"[", "T", "A", "B", "L", "E", "_">>)

(***************************************************************************)
(* crawl_docs                                                              *)
(***************************************************************************)
HTTP_H == <<"h", "t", "t", "p", ":", "/", "/", "h">>

\* CONFIG["START_URL"] of the model's runs
START_URL == HTTP_H \o <<"/">>

DOCS == <<"/", "d", "o", "c", "s", "/">>

\* the hrefs of the model's pages and of its LINKS_LIST
HREF_A == DOCS \o <<"a">>

HREF_DOCS_B == DOCS \o <<"b">>

HREF_B == <<"b">>

HREF_X == <<"/", "x">>

HREF_ELSEWHERE == <<"h", "t", "t", "p", ":", "/", "/", "g">> \o DOCS \o <<"a">>

HREF_SELF == <<>>

HREFS == {HREF_A, HREF_B, HREF_X, HREF_ELSEWHERE, HREF_SELF}

\* the index of the k-th "/" of s
RECURSIVE SlashAt(_, _, _)
SlashAt(s, k, from) ==
    IF s[from] = "/"
    THEN (IF k = 1 THEN from ELSE SlashAt(s, k - 1, from + 1))
    ELSE SlashAt(s, k, from + 1)

\* the index of the last "/" of s
LastSlash(s) == CHOOSE i \in 1..Len(s) :
                   s[i] = "/" /\ \A j \in (i + 1)..Len(s) : s[j] # "/"

\* urllib.parse.urljoin(base, href), for a base "scheme://host/path" and an
\* href that is empty, absolute, rooted ("/path") or relative ("name")
urljoin(base, href) ==
    IF href = <<>> THEN base
    ELSE IF Contains(href, <<":", "/", "/">>) THEN href
    ELSE IF Head(href) = "/" THEN SubSeq(base, 1, SlashAt(base, 3, 1) - 1) \o href
    ELSE SubSeq(base, 1, LastSlash(base)) \o href

URL_A == urljoin(START_URL, HREF_A)

URL_B == urljoin(START_URL, HREF_DOCS_B)

URL_X == urljoin(START_URL, HREF_X)

\* the URLs a run of the model can request
PAGES == {START_URL, URL_A, URL_B, URL_X}

\* what the first request of a URL meets: the request raises, the page has no
\* focus element, its title or its body is empty, or it has both
KINDS == {"raise", "nofocus", "empty", "good"}

\* what the first request of u meets; outside the site, the request raises
KindOf(k, u) == IF u \in DOMAIN k THEN k[u] ELSE "raise"

\* one more call of get_page_content(u)
Started(s, u) ==
    [v \in DOMAIN s \cup {u} |->
        IF v \in DOMAIN s THEN (IF v = u THEN s[v] + 1 ELSE s[v]) ELSE 1]

\* the title and body get_page_content returns for a page with both
TITLE == <<"T">>

BODY == <<"x">>

MaxCap == 2

RULE_WIDTH == 80

RULE == [k \in 1..RULE_WIDTH |-> "="]

TIMESTAMP == <<"2", "0", "2", "5", "-", "0", "1", "-", "0", "1", " ", "0", "0", ":", "0", "0", ":", "0", "0">>

\* the three writes before the loop
HeaderWrites(links_list) ==
    << <<"D", "o", "c", "u", "m", "e", "n", "t", "a", "t", "i", "o", "n", " ", "c", "r", "a", "w", "l", "e", "d", " ", "o", "n", ":", " ">> \o TIMESTAMP \o <<"\n">>,
       <<"S", "o", "u", "r", "c", "e", ":", " ">>
           \o (IF links_list # <<>> THEN <<"L", "I", "N", "K", "S", "_", "L", "I", "S", "T">>
               ELSE START_URL)
           \o <<"\n">>,
       RULE \o <<"\n", "\n">> >>

\* the six writes for one page
PageWrites(title, u, body) ==
    << <<"\n">> \o RULE \o <<"\n">>,
       <<"P", "A", "G", "E", ":", " ">> \o title \o <<"\n">>,
       <<"U", "R", "L", ":", " ">> \o u \o <<"\n">>,
       RULE \o <<"\n", "\n">>,
       body,
       <<"\n", "\n">> >>

\* if title and content
ShouldWriteUnguarded(res) == TRUE

ShouldWriteTitleOnly(res) == res.found /\ res.title # <<>>

ShouldWrite(res) == res.found /\ res.title # <<>> /\ res.content # <<>>

\* the condition of the while loop
LoopConditionInclusive(frontier, max_pages, pages) ==
    /\ frontier # {}
    /\ (max_pages.none \/ pages <= max_pages.n)

LoopCondition(frontier, max_pages, pages) ==
    /\ frontier # {}
    /\ (max_pages.none \/ pages < max_pages.n)

\* the condition under which a link found on a page joins to_visit
AdmitVisited(next_url, seen) ==
    /\ StartsWith(next_url, START_URL)
    /\ Contains(next_url, DOCS)

AdmitAnywhere(next_url, seen) ==
    /\ StartsWith(next_url, START_URL)
    /\ next_url \notin seen

Admit(next_url, seen) ==
    /\ StartsWith(next_url, START_URL)
    /\ next_url \notin seen
    /\ Contains(next_url, DOCS)

\* where the except clause leaves the run: at the loop's test
AfterErrorAbort == "done"

AfterError == "loop"

\* the state when the loop is first tested: the frontier seeded, the header
\* written (the backup of an older output file touches none of this state)
CrawlInit ==
    /\ LINKS_LIST \in {<<>>, <<HREF_A, HREF_DOCS_B, HREF_X, HREF_A>>}
    /\ MAX_PAGES \in {[none |-> TRUE, n |-> 0]}
                        \cup {[none |-> FALSE, n |-> k] : k \in 0..MaxCap}
    /\ kind \in [PAGES -> KINDS]
    /\ visited = {}
    /\ to_visit = IF LINKS_LIST # <<>>
                  THEN {urljoin(START_URL, LINKS_LIST[i]) : i \in 1..Len(LINKS_LIST)}
                  ELSE {START_URL}
    /\ pages_processed = 0
    /\ out = HeaderWrites(LINKS_LIST)
    /\ url = <<>>
    /\ result = [found |-> FALSE, title |-> <<>>, content |-> <<>>]
    /\ pc = "loop"
    /\ started = <<>>
    /\ discover_failed = {}
    /\ requests_made = 0
    /\ unslept = 0
    /\ CleanIdle
    /\ ExtractIdle

\* url = to_visit.pop(); if url in visited: continue; visited.add(url)
Pop ==
    /\ pc = "loop"
    /\ LoopCondition(to_visit, MAX_PAGES, pages_processed)
    /\ \E u \in to_visit :
         /\ to_visit' = to_visit \ {u}
         /\ IF u \in visited
            THEN /\ pc' = "loop"
                 /\ UNCHANGED <<visited, url, unslept>>
            ELSE /\ visited' = visited \cup {u}
                 /\ url' = u
                 /\ unslept' = unslept + 1
                 /\ pc' = "extract"
    /\ UNCHANGED <<LINKS_LIST, MAX_PAGES, kind, pages_processed, out, result,
                   started, discover_failed, requests_made>>
    /\ UNCHANGED cleanVars
    /\ UNCHANGED extractVars

\* title, content = get_page_content(url), the request raising
GetPageRaises ==
    /\ pc = "extract"
    /\ KindOf(kind, url) = "raise"
    /\ started' = Started(started, url)
    /\ requests_made' = requests_made + 1
    /\ pc' = "except"
    /\ UNCHANGED <<LINKS_LIST, MAX_PAGES, kind, visited, to_visit,
                   pages_processed, out, url, result, discover_failed, unslept>>
    /\ UNCHANGED cleanVars
    /\ UNCHANGED extractVars

\* title, content = get_page_content(url), returning (None, None) or a pair
GetPageReturns ==
    /\ pc = "extract"
    /\ KindOf(kind, url) # "raise"
    /\ started' = Started(started, url)
    /\ requests_made' = requests_made + 1
    /\ \/ /\ KindOf(kind, url) = "nofocus"
          /\ result' = [found |-> FALSE, title |-> <<>>, content |-> <<>>]
       \/ /\ KindOf(kind, url) = "empty"
          /\ \E t \in {<<>>, TITLE, url}, b \in {<<>>, BODY} :
                /\ t = <<>> \/ b = <<>>
                /\ result' = [found |-> TRUE, title |-> t, content |-> b]
       \/ /\ KindOf(kind, url) = "good"
          /\ \E t \in {TITLE, url} :
                result' = [found |-> TRUE, title |-> t, content |-> BODY]
    /\ pc' = "write"
    /\ UNCHANGED <<LINKS_LIST, MAX_PAGES, kind, visited, to_visit,
                   pages_processed, out, url, discover_failed, unslept>>
    /\ UNCHANGED cleanVars
    /\ UNCHANGED extractVars

\* if title and content: the six writes; pages_processed += 1
Write ==
    /\ pc = "write"
    /\ IF ShouldWrite(result)
       THEN /\ out' = out \o PageWrites(result.title, url, result.content)
            /\ pages_processed' = pages_processed + 1
       ELSE UNCHANGED <<out, pages_processed>>
    /\ pc' = "discover"
    /\ UNCHANGED <<LINKS_LIST, MAX_PAGES, kind, visited, to_visit, url, result,
                   started, discover_failed, requests_made, unslept>>
    /\ UNCHANGED cleanVars
    /\ UNCHANGED extractVars

\* if not CONFIG["LINKS_LIST"] is false: no request, no link
DiscoverSkipped ==
    /\ pc = "discover"
    /\ LINKS_LIST # <<>>
    /\ pc' = "sleep"
    /\ UNCHANGED <<LINKS_LIST, MAX_PAGES, kind, visited, to_visit,
                   pages_processed, out, url, result,
                   started, discover_failed, requests_made, unslept>>
    /\ UNCHANGED cleanVars
    /\ UNCHANGED extractVars

\* requests.get(url) raises
DiscoverRaises ==
    /\ pc = "discover"
    /\ LINKS_LIST = <<>>
    /\ requests_made' = requests_made + 1
    /\ discover_failed' = discover_failed \cup {url}
    /\ pc' = "except"
    /\ UNCHANGED <<LINKS_LIST, MAX_PAGES, kind, visited, to_visit,
                   pages_processed, out, url, result, started, unslept>>
    /\ UNCHANGED cleanVars
    /\ UNCHANGED extractVars

\* requests.get(url) returns a page with the hrefs hs; the loop over its links
DiscoverLinks ==
    /\ pc = "discover"
    /\ LINKS_LIST = <<>>
    /\ requests_made' = requests_made + 1
    /\ \E hs \in SUBSET HREFS :
         to_visit' = to_visit \cup
             {n \in {urljoin(url, h) : h \in hs} : Admit(n, visited)}
    /\ pc' = "sleep"
    /\ UNCHANGED <<LINKS_LIST, MAX_PAGES, kind, visited,
                   pages_processed, out, url, result,
                   started, discover_failed, unslept>>
    /\ UNCHANGED cleanVars
    /\ UNCHANGED extractVars

\* time.sleep(1)
Sleep ==
    /\ pc = "sleep"
    /\ unslept' = 0
    /\ pc' = "loop"
    /\ UNCHANGED <<LINKS_LIST, MAX_PAGES, kind, visited, to_visit,
                   pages_processed, out, url, result,
                   started, discover_failed, requests_made>>
    /\ UNCHANGED cleanVars
    /\ UNCHANGED extractVars

\* except Exception as e: print(...)
Except ==
    /\ pc = "except"
    /\ pc' = AfterError
    /\ UNCHANGED <<LINKS_LIST, MAX_PAGES, kind, visited, to_visit,
                   pages_processed, out, url, result,
                   started, discover_failed, requests_made, unslept>>
    /\ UNCHANGED cleanVars
    /\ UNCHANGED extractVars

\* the while condition is false: the loop, and the run, end
Exit ==
    /\ pc = "loop"
    /\ ~LoopCondition(to_visit, MAX_PAGES, pages_processed)
    /\ pc' = "done"
    /\ UNCHANGED <<LINKS_LIST, MAX_PAGES, kind, visited, to_visit,
                   pages_processed, out, url, result,
                   started, discover_failed, requests_made, unslept>>
    /\ UNCHANGED cleanVars
    /\ UNCHANGED extractVars

CrawlNext ==
    \/ Pop
    \/ GetPageRaises
    \/ GetPageReturns
    \/ Write
    \/ DiscoverSkipped
    \/ DiscoverRaises
    \/ DiscoverLinks
    \/ Sleep
    \/ Except
    \/ Exit

CrawlSpec == CrawlInit /\ [][CrawlNext]_vars

\* one thread runs the loop: a step that can be taken is taken
FairCrawlSpec == CrawlSpec /\ WF_vars(CrawlNext)

(***************************************************************************)
(* What the output file and the history say                                *)
(***************************************************************************)
\* the writes of a "PAGE: " line
NumPageBlocks ==
    Cardinality({i \in 1..Len(out) : StartsWith(out[i], <<"P", "A", "G", "E", ":", " ">>)})

\* a page block was written for u
HasBlock(u) ==
    \E i \in 1..Len(out) : out[i] = <<"U", "R", "L", ":", " ">> \o u \o <<"\n">>

\* the URLs that entered the frontier and are fetchable and extractable
Supply == Cardinality({u \in visited \cup to_visit : KindOf(kind, u) = "good"})

CapReached == ~MAX_PAGES.none /\ pages_processed = MAX_PAGES.n

\* the text written by the step, if the step only appended to the file
Appended ==
    IF Len(out') >= Len(out) /\ SubSeq(out', 1, Len(out)) = out
    THEN Flatten(SubSeq(out', Len(out) + 1, Len(out')))
    ELSE <<"?">>

\* the page block of the output format, for the page just returned
ExpectedBlock ==
    <<"\n">> \o [k \in 1..80 |-> "="] \o <<"\n">>
        \o <<"P", "A", "G", "E", ":", " ">> \o result.title \o <<"\n">>
        \o <<"U", "R", "L", ":", " ">> \o url \o <<"\n">>
        \o [k \in 1..80 |-> "="] \o <<"\n", "\n">>
        \o result.content \o <<"\n", "\n">>

\* C1: visited only grows, no visited URL is (re-)added to to_visit or stays
\* in it, and get_page_content is started at most once for each URL
C1_ProcessedOnce ==
    [][/\ visited \subseteq visited'
       /\ (to_visit' \ to_visit) \cap visited' = {}
       /\ to_visit' \cap visited' = {}
       /\ \A u \in DOMAIN started' : started'[u] <= 1]_vars

C1_Witness ==
    /\ pc = "done"
    /\ LINKS_LIST = <<>>
    /\ visited = {START_URL, URL_A, URL_B}
    /\ \A u \in visited : started[u] = 1

\* C2 as claimed: the PAGE blocks written are pages_processed and at most the
\* cap; a frontier that supplies more than cap good pages ends with exactly cap
\* blocks and unprocessed URLs left; and once pages_processed = cap no URL is
\* popped and no request is made
C2_NoRequestAtCap ==
    /\ [](NumPageBlocks = pages_processed
            /\ (~MAX_PAGES.none => pages_processed <= MAX_PAGES.n))
    /\ []((pc = "done" /\ ~MAX_PAGES.none /\ Supply > MAX_PAGES.n)
            => (pages_processed = MAX_PAGES.n /\ to_visit \ visited # {}))
    /\ [][CapReached => (visited' = visited /\ requests_made' = requests_made)]_vars

\* C2, amended: as claimed, but once pages_processed = cap no URL is popped
\* and no get_page_content is started; the page that reached the cap is still
\* requested once more for its links
C2_PageCap ==
    /\ [](NumPageBlocks = pages_processed
            /\ (~MAX_PAGES.none => pages_processed <= MAX_PAGES.n))
    /\ []((pc = "done" /\ ~MAX_PAGES.none /\ Supply > MAX_PAGES.n)
            => (pages_processed = MAX_PAGES.n /\ to_visit \ visited # {}))
    /\ [][CapReached => (visited' = visited /\ started' = started)]_vars

C2_Witness ==
    /\ pc = "done"
    /\ LINKS_LIST # <<>>
    /\ MAX_PAGES = [none |-> FALSE, n |-> 2]
    /\ Supply = 3
    /\ NumPageBlocks = 2
    /\ to_visit # {}

\* C3: a URL added to to_visit after the start begins with START_URL, holds
\* "/docs/" and is not visited; with a LINKS_LIST the frontier only shrinks
C3_LinkFilter ==
    [][/\ \A u \in to_visit' \ to_visit :
             /\ StartsWith(u, START_URL)
             /\ Contains(u, <<"/", "d", "o", "c", "s", "/">>)
             /\ u \notin visited
       /\ (LINKS_LIST # <<>> => to_visit' \subseteq to_visit)]_vars

C3_Witness ==
    /\ LINKS_LIST = <<>>
    /\ pc = "sleep"
    /\ url = URL_A
    /\ URL_B \in to_visit

\* C4 as claimed: a URL one of whose requests raised (for the extraction or
\* for the links) or whose page has no focus element has no PAGE block
C4_NoOutputOnAnyFailure ==
    \A u \in visited :
        (KindOf(kind, u) \in {"raise", "nofocus"} \/ u \in discover_failed)
            => ~HasBlock(u)

\* C4, amended: a URL whose extraction request raised or whose page has no
\* focus element gets no PAGE block and no count; a request for the links
\* that raises comes after the write and undoes nothing
C4_NoOutputOnFailedExtraction ==
    /\ [](\A u \in visited :
            KindOf(kind, u) \in {"raise", "nofocus"} => ~HasBlock(u))
    /\ [][(pc \in {"extract", "write", "discover", "sleep", "except"}
              /\ KindOf(kind, url) \in {"raise", "nofocus"})
            => (out' = out /\ pages_processed' = pages_processed)]_vars
    /\ [][pc = "discover" => (out' = out /\ pages_processed' = pages_processed)]_vars

C4_Witness ==
    /\ pc = "done"
    /\ LINKS_LIST # <<>>
    /\ kind[URL_A] = "raise"
    /\ kind[URL_B] = "nofocus"
    /\ visited = {URL_A, URL_B, URL_X}
    /\ pages_processed = 1
    /\ HasBlock(URL_X)

\* C5: every iteration that processes a URL sleeps before the next URL is
\* popped: no URL is processed while the delay of the one before is owed
C5_DelayEveryIteration == unslept <= 1

\* C6 as claimed: whenever get_page_content returns a pair, the page block,
\* the body and two newlines are written and pages_processed grows by one
C6_WritesEveryResult ==
    [][(pc = "write" /\ result.found)
        => (Appended = ExpectedBlock /\ pages_processed' = pages_processed + 1)]_vars

\* C6, amended: the block is written, and the page counted, whenever the title
\* and the body returned are both non-empty; a pair with an empty title or an
\* empty body writes nothing and is not counted
C6_WritesNonEmptyResult ==
    [][(pc = "write" /\ result.found)
        => IF result.title # <<>> /\ result.content # <<>>
           THEN Appended = ExpectedBlock /\ pages_processed' = pages_processed + 1
           ELSE out' = out /\ pages_processed' = pages_processed]_vars

C6_Witness ==
    /\ pc = "discover"
    /\ result = [found |-> TRUE, title |-> url, content |-> BODY]
    /\ pages_processed = 2
    /\ HasBlock(url)

\* C7: every run ends, and only with to_visit empty or the cap reached; a
\* request that raises leaves the run at the loop's test with the frontier as
\* it was, and the next URL is then popped
C7_Terminates ==
    /\ <>(pc = "done")
    /\ [](pc = "done" =>
            to_visit = {} \/ (~MAX_PAGES.none /\ pages_processed >= MAX_PAGES.n))
    /\ [][pc = "except" => (pc' = "loop" /\ to_visit' = to_visit)]_vars
    /\ (pc = "except" /\ to_visit # {}
           /\ (MAX_PAGES.none \/ pages_processed < MAX_PAGES.n))
         ~> (pc = "extract")

C7_Witness ==
    /\ pc = "done"
    /\ LINKS_LIST # <<>>
    /\ kind[URL_A] = "raise"
    /\ kind[URL_B] = "raise"
    /\ visited = {URL_A, URL_B, URL_X}
    /\ pages_processed = 1
====
